---- MODULE Spec2Model ----
(***************************************************************************)
(* Model of the synchronization controller of                              *)
(* src/src/context/FriendsContext.tsx (FriendsProvider): the remote        *)
(* collections it reads and writes (friends, friend_requests,              *)
(* study_sessions, group_messages, users), the four in-memory mirrors of   *)
(* every controller, and its operations.  An asynchronous handler is a     *)
(* chain of actions, one per remote round trip: the action is the arrival  *)
(* of the response together with the synchronous code that runs up to the  *)
(* next await.  Every round trip may fail.  There is one controller per    *)
(* signed-in user, named by that user's id; its caller awaits an operation *)
(* before it invokes the next, while the loaders its subscriptions start   *)
(* run beside the operation.                                               *)
(***************************************************************************)
EXTENDS Integers, Sequences, FiniteSets, TLC

\* ------------------------------------------------------------------ bounds
MaxRequests == 3
MaxFriendRows == 6
MaxCalls == 2
MaxFeedCalls == 3
MaxLoadCalls == 2
MaxTime == 2
MaxSessionCalls == 3
MaxBulkCalls == 2

\* messages.limit(50)
MessageLimit == 50

\* ------------------------------------------------------- the user directory
Users == {1, 2, 3}

Directory ==
  { [id |-> 1, name |-> "Ann", email |-> "ann@x"],
    [id |-> 2, name |-> "Bob", email |-> "bob@x"],
    [id |-> 3, name |-> "Cy", email |-> "cy@x"] }

Emails == {"ann@x", "bob@x", "cy@x", "nobody@x"}

Statuses == {"studying", "break", "offline"}

\* The optional subject argument; "" stands for a call without one.
Subjects == {"", "math"}

VARIABLES
  tblFriends,      \* remote friends rows [id, user_id, friend_id]
  friendSeq,       \* ids handed out to friends rows so far
  tblRequests,     \* remote friend_requests: row id = index
  tblSessions,     \* remote study_sessions rows
  tblMessages,     \* remote group_messages: row id = index = creation order
  now,             \* the clock new Date() reads
  session,         \* session[u]: controller u has a user (useAuth)
  isLoading,       \* isLoading[u]: the isLoading flag of controller u
  bulk,            \* bulk[u][i]: the bulk load the i-th effect run with a user started
  call,            \* call[u]: the mutation operation controller u runs
  calls,           \* operations invoked and session changes so far
  budget,          \* operations and session changes a run may make
  ret,             \* the operation that returned in the last step, and its value
  log,             \* what the last step wrote with console.error
  notif,           \* notif[u]: pairs <<table, i>>: a change event of the table is pending
                   \*   for the subscription the i-th effect run installed
  ld,              \* ld[u][k]: the loader run a notification started
  capturedFriends, \* capturedFriends[u][i]: `friends` as the closure of the i-th effect
                   \*   run with a user holds it; its subscriptions are never removed
  friends,         \* friends[u]: the friends mirror of controller u
  friendRequests,  \* friendRequests[u]: the friend-request mirror
  studySessions,   \* studySessions[u]: the study-session mirror
  groupMessages    \* groupMessages[u]: the group-message mirror

vars == <<tblFriends, friendSeq, tblRequests, tblSessions, tblMessages, now,
          session, isLoading, bulk, call, calls, budget, ret, log, notif, ld,
          capturedFriends,
          friends, friendRequests, studySessions, groupMessages>>

remote == <<tblFriends, friendSeq, tblRequests, tblSessions, tblMessages>>
mirrors == <<friends, friendRequests, studySessions, groupMessages>>
\* What the friend operations never touch.
aside == <<tblSessions, tblMessages, now, session, isLoading, bulk, budget, ld,
           capturedFriends,
           studySessions, groupMessages>>

\* ------------------------------------------------------------ query helpers

\* .single(): the row when the query matches exactly one row, otherwise no
\* data (and an error).  A result is a set holding the row, or empty.
Single(rows) == IF Cardinality(rows) = 1 THEN rows ELSE {}

\* .from('users').select('id').eq('email', email)
UsersByEmail(email) == {d \in Directory : d.email = email}

\* .from('users').select(...).in('id', ids)
UsersIn(ids) == {d \in Directory : d.id \in ids}

\* usersData?.find(u => u.id === id)?.name || 'Unknown'
NameOf(usersData, id) ==
  LET hit == {d \in usersData : d.id = id}
  IN IF hit = {} THEN "Unknown" ELSE (CHOOSE d \in hit : TRUE).name

\* usersData?.find(u => u.id === id)?.email || ''
EmailOf(usersData, id) ==
  LET hit == {d \in usersData : d.id = id}
  IN IF hit = {} THEN "" ELSE (CHOOSE d \in hit : TRUE).email

LinkFilterOneWay(a, b) ==
  {r \in tblFriends : r.user_id = a /\ r.friend_id = b}

\* or(and(user_id.eq.a,friend_id.eq.b),and(user_id.eq.b,friend_id.eq.a))
LinkFilter(a, b) ==
  {r \in tblFriends : \/ (r.user_id = a /\ r.friend_id = b)
                      \/ (r.user_id = b /\ r.friend_id = a)}

RequestIds == 1..Len(tblRequests)

\* The effect runs of controller u that installed subscriptions
\* (setupRealtimeSubscriptions runs in every effect run with a user; the
\* function it returns is dropped, so nothing ever unsubscribes).
Installed(u) == 1..Len(capturedFriends[u])

\* The controllers with subscriptions installed.
Subscribers == {u \in Users : Installed(u) # {}}

\* A change of table k raises a change event for every subscription on it.
Emit(k) == notif' = [u \in Users |-> notif[u] \cup {<<k, i>> : i \in Installed(u)}]

\* ------------------------------------------------------- calls and returns

\* No operation running.
Idle == [op |-> "none", pc |-> "done", email |-> "", id |-> 0, status |-> "",
         subject |-> "", target |-> 0, other |-> 0, data |-> {}]

NoReturn == [u |-> 0, op |-> "none", email |-> "", id |-> 0, status |-> "",
             subject |-> "", res |-> "none"]

NoLog == [u |-> 0, msg |-> ""]

\* The subscribed tables: friend_requests, study_sessions, group_messages.
Kinds == {"requests", "sessions", "messages"}

\* The loaders of a bulk load: loadFriends and the loaders of the three tables.
BulkKinds == Kinds \cup {"friends"}

\* No loader run of kind k in progress.
NotLoading(k) == [pc |-> "idle", data |-> IF k = "messages" THEN <<>> ELSE {}, sub |-> 0]

\* console.error(msg, ...) by controller u; "" when the step logs nothing.
Logs(u, msg) == log' = IF msg = "" THEN NoLog ELSE [u |-> u, msg |-> msg]

\* Controller u starts an operation, which goes on as c.
Enter(u, c) ==
  /\ call[u].pc = "done"
  /\ calls < budget
  /\ calls' = calls + 1
  /\ call' = [call EXCEPT ![u] = c]
  /\ ret' = NoReturn
  /\ log' = NoLog

\* Controller u starts operation c0, which returns r at once, logging msg.
EnterReturn(u, c0, r, msg) ==
  /\ call[u].pc = "done"
  /\ calls < budget
  /\ calls' = calls + 1
  /\ ret' = [u |-> u, op |-> c0.op, email |-> c0.email, id |-> c0.id,
             status |-> c0.status, subject |-> c0.subject, res |-> r]
  /\ Logs(u, msg)
  /\ UNCHANGED call

\* The running operation of controller u goes on as c, logging msg.
Goto(u, c, msg) ==
  /\ call' = [call EXCEPT ![u] = c]
  /\ ret' = NoReturn
  /\ Logs(u, msg)
  /\ UNCHANGED calls

\* The running operation of controller u returns r, logging msg.
Return(u, r, msg) ==
  /\ ret' = [u |-> u, op |-> call[u].op, email |-> call[u].email, id |-> call[u].id,
             status |-> call[u].status, subject |-> call[u].subject, res |-> r]
  /\ call' = [call EXCEPT ![u] = Idle]
  /\ Logs(u, msg)
  /\ UNCHANGED calls

\* ------------------------------------------------------------------ loaders
\* A loader makes two round trips.  The outcome of the first is a record: done
\* (the loader returns), mirror (the mirror's value after it), data (the rows
\* kept for the join) and msg (what it logs).  The outcome of the second is
\* the pair mirror, msg.

\* loadFriends, first fetch: .from('friends').eq('user_id', user.id)
FriendRows(u) == {r \in tblFriends : r.user_id = u}

\* loadFriends, the join: friendsData.map(f => ({... friend_name, friend_email}))
JoinFriends(rows, usersData) ==
  { [id |-> r.id, user_id |-> r.user_id, friend_id |-> r.friend_id,
     friend_name |-> NameOf(usersData, r.friend_id),
     friend_email |-> EmailOf(usersData, r.friend_id)] : r \in rows }

LoadFriendsFetched(u, ok, cur) ==
  IF ~ok THEN [done |-> TRUE, mirror |-> cur, data |-> {}, msg |-> "Error loading friends:"]
  ELSE IF FriendRows(u) = {} THEN [done |-> TRUE, mirror |-> {}, data |-> {}, msg |-> ""]
  ELSE [done |-> FALSE, mirror |-> cur, data |-> FriendRows(u), msg |-> ""]

LoadFriendsJoinedPartial(data, ok, cur) ==
  IF ~ok THEN [mirror |-> JoinFriends(data, {}), msg |-> "Error loading friend user details:"]
  ELSE [mirror |-> JoinFriends(data, UsersIn({r.friend_id : r \in data})), msg |-> ""]

LoadFriendsJoined(data, ok, cur) ==
  IF ~ok THEN [mirror |-> cur, msg |-> "Error loading friend user details:"]
  ELSE [mirror |-> JoinFriends(data, UsersIn({r.friend_id : r \in data})), msg |-> ""]

\* loadFriendRequests, first fetch: receiver_id = user.id and status = pending
PendingRows(u) ==
  { [id |-> i, sender_id |-> tblRequests[i].sender_id,
     receiver_id |-> tblRequests[i].receiver_id, status |-> tblRequests[i].status]
    : i \in {j \in RequestIds : /\ tblRequests[j].receiver_id = u
                                /\ tblRequests[j].status = "pending"} }

\* loadFriendRequests, the join: requestsData.map(r => ({...r, sender_name, sender_email}))
JoinRequests(rows, usersData) ==
  { [id |-> r.id, sender_id |-> r.sender_id, receiver_id |-> r.receiver_id,
     status |-> r.status,
     sender_name |-> NameOf(usersData, r.sender_id),
     sender_email |-> EmailOf(usersData, r.sender_id)] : r \in rows }

LoadRequestsFetched(u, ok, cur) ==
  IF ~ok THEN [done |-> TRUE, mirror |-> cur, data |-> {}, msg |-> "Error loading friend requests:"]
  ELSE IF PendingRows(u) = {} THEN [done |-> TRUE, mirror |-> {}, data |-> {}, msg |-> ""]
  ELSE [done |-> FALSE, mirror |-> cur, data |-> PendingRows(u), msg |-> ""]

LoadRequestsJoined(data, ok, cur) ==
  IF ~ok THEN [mirror |-> cur, msg |-> "Error loading sender user details:"]
  ELSE [mirror |-> JoinRequests(data, UsersIn({r.sender_id : r \in data})), msg |-> ""]

\* What follows `await loadFriends()` in the running operation:
\* acceptFriendRequest goes on to loadFriendRequests, removeFriend returns true.
AfterLoadFriends(u, msg) ==
  IF call[u].op = "accept"
  THEN Goto(u, [call[u] EXCEPT !.pc = "loadRequests", !.data = {}], msg)
  ELSE Return(u, "true", msg)

\* loadFriends inside a mutation: the response of the first fetch.
CallLoadFriends(u) ==
  /\ call[u].pc = "loadFriends"
  /\ \E ok \in BOOLEAN :
       LET o == LoadFriendsFetched(u, ok, friends[u]) IN
       /\ friends' = [friends EXCEPT ![u] = o.mirror]
       /\ IF o.done THEN AfterLoadFriends(u, o.msg)
          ELSE Goto(u, [call[u] EXCEPT !.pc = "loadFriendsUsers", !.data = o.data], o.msg)
  /\ UNCHANGED <<remote, aside, notif, friendRequests>>

\* loadFriends inside a mutation: the response of the directory fetch.
CallLoadFriendsUsers(u) ==
  /\ call[u].pc = "loadFriendsUsers"
  /\ \E ok \in BOOLEAN :
       LET o == LoadFriendsJoined(call[u].data, ok, friends[u]) IN
       /\ friends' = [friends EXCEPT ![u] = o.mirror]
       /\ AfterLoadFriends(u, o.msg)
  /\ UNCHANGED <<remote, aside, notif, friendRequests>>

\* loadFriendRequests inside a mutation: the response of the first fetch.
CallLoadRequests(u) ==
  /\ call[u].pc = "loadRequests"
  /\ \E ok \in BOOLEAN :
       LET o == LoadRequestsFetched(u, ok, friendRequests[u]) IN
       /\ friendRequests' = [friendRequests EXCEPT ![u] = o.mirror]
       /\ IF o.done THEN Return(u, "true", o.msg)
          ELSE Goto(u, [call[u] EXCEPT !.pc = "loadRequestsUsers", !.data = o.data], o.msg)
  /\ UNCHANGED <<remote, aside, notif, friends>>

\* loadFriendRequests inside a mutation: the response of the directory fetch.
CallLoadRequestsUsers(u) ==
  /\ call[u].pc = "loadRequestsUsers"
  /\ \E ok \in BOOLEAN :
       LET o == LoadRequestsJoined(call[u].data, ok, friendRequests[u]) IN
       /\ friendRequests' = [friendRequests EXCEPT ![u] = o.mirror]
       /\ Return(u, "true", o.msg)
  /\ UNCHANGED <<remote, aside, notif, friends>>

\* -------------------------------------------------------- sendFriendRequest

TargetIsSelfNever(found, u) == FALSE

\* if (userData.id === user.id) throw
TargetIsSelf(found, u) == found.id = u

\* Entry and the response of the directory lookup by email (.single()).
SendLookup(u, email) ==
  /\ \E ok \in BOOLEAN :
       LET c0 == [Idle EXCEPT !.op = "send", !.email = email]
           userData == IF ok THEN Single(UsersByEmail(email)) ELSE {}
           found == CHOOSE d \in userData : TRUE
       IN IF ~session[u] THEN EnterReturn(u, c0, "false", "")
          ELSE IF userData = {} THEN EnterReturn(u, c0, "false", "Error sending friend request:")
          ELSE IF TargetIsSelf(found, u)
            THEN EnterReturn(u, c0, "false", "Error sending friend request:")
          ELSE Enter(u, [c0 EXCEPT !.pc = "check", !.target = found.id])
  /\ UNCHANGED <<remote, aside, notif, friends, friendRequests>>

\* The response of the "already friends" query (.single()): only its data is
\* read, so a failed query and a query matching several rows both pass.
SendCheck(u) ==
  /\ call[u].pc = "check"
  /\ \E ok \in BOOLEAN :
       LET existingFriend == IF ok THEN Single(LinkFilter(u, call[u].target)) ELSE {}
       IN IF existingFriend # {} THEN Return(u, "false", "Error sending friend request:")
          ELSE Goto(u, [call[u] EXCEPT !.pc = "insert"], "")
  /\ UNCHANGED <<remote, aside, notif, friends, friendRequests>>

\* The response of the friend_requests insert.
SendInsert(u) ==
  /\ call[u].pc = "insert"
  /\ call[u].op = "send"
  /\ \E ok \in BOOLEAN :
       IF ok /\ Len(tblRequests) < MaxRequests THEN
         /\ tblRequests' = Append(tblRequests,
              [sender_id |-> u, receiver_id |-> call[u].target, status |-> "pending"])
         /\ Emit("requests")
         /\ Return(u, "true", "")
       ELSE
         /\ Return(u, "false", "Error sending friend request:")
         /\ UNCHANGED <<tblRequests, notif>>
  /\ UNCHANGED <<tblFriends, friendSeq, aside, friends, friendRequests>>

\* ------------------------------------------------------ acceptFriendRequest

\* Entry and the response of the request lookup (.eq('id', requestId).single()).
AcceptLookup(u, requestId) ==
  /\ \E ok \in BOOLEAN :
       LET c0 == [Idle EXCEPT !.op = "accept", !.id = requestId]
           found == ok /\ requestId \in RequestIds
       IN IF ~session[u] THEN EnterReturn(u, c0, "false", "")
          ELSE IF ~found THEN EnterReturn(u, c0, "false", "Error accepting friend request:")
          ELSE Enter(u, [c0 EXCEPT !.pc = "insert",
                                   !.target = tblRequests[requestId].sender_id,
                                   !.other = tblRequests[requestId].receiver_id])
  /\ UNCHANGED <<remote, aside, notif, friends, friendRequests>>

NewLinksOneWay(sender, receiver) ==
  { [id |-> friendSeq + 1, user_id |-> receiver, friend_id |-> sender] }

\* The two rows of one insert statement: receiver -> sender, sender -> receiver.
NewLinks(sender, receiver) ==
  { [id |-> friendSeq + 1, user_id |-> receiver, friend_id |-> sender],
    [id |-> friendSeq + 2, user_id |-> sender, friend_id |-> receiver] }

\* The response of the friends insert (both directions in one statement).
AcceptInsert(u) ==
  /\ call[u].pc = "insert"
  /\ call[u].op = "accept"
  /\ \E ok \in BOOLEAN :
       IF ok /\ friendSeq + 2 <= MaxFriendRows THEN
         /\ tblFriends' = tblFriends \cup NewLinks(call[u].target, call[u].other)
         /\ friendSeq' = friendSeq + 2
         /\ Goto(u, [call[u] EXCEPT !.pc = "update"], "")
       ELSE
         /\ Return(u, "false", "Error accepting friend request:")
         /\ UNCHANGED <<tblFriends, friendSeq>>
  /\ UNCHANGED <<tblRequests, aside, notif, friends, friendRequests>>

AcceptStatusPending == "pending"

\* .update({ status: 'accepted' })
AcceptStatus == "accepted"

\* .update({status}).eq('id', requestId): no matching row updates nothing.
SetStatus(requestId, status) ==
  IF requestId \in RequestIds
  THEN [tblRequests EXCEPT ![requestId].status = status]
  ELSE tblRequests

AcceptUpdateIgnoresError(u) ==
  /\ call[u].pc = "update"
  /\ call[u].op = "accept"
  /\ \E ok \in BOOLEAN :
       IF ok THEN
         /\ tblRequests' = SetStatus(call[u].id, AcceptStatus)
         /\ IF call[u].id \in RequestIds THEN Emit("requests") ELSE UNCHANGED notif
         /\ Goto(u, [call[u] EXCEPT !.pc = "loadFriends"], "")
       ELSE
         /\ Goto(u, [call[u] EXCEPT !.pc = "loadFriends"], "")
         /\ UNCHANGED <<tblRequests, notif>>
  /\ UNCHANGED <<tblFriends, friendSeq, aside, friends, friendRequests>>

\* The response of the status update; on success loadFriends is started.
AcceptUpdate(u) ==
  /\ call[u].pc = "update"
  /\ call[u].op = "accept"
  /\ \E ok \in BOOLEAN :
       IF ok THEN
         /\ tblRequests' = SetStatus(call[u].id, AcceptStatus)
         /\ IF call[u].id \in RequestIds THEN Emit("requests") ELSE UNCHANGED notif
         /\ Goto(u, [call[u] EXCEPT !.pc = "loadFriends"], "")
       ELSE
         /\ Return(u, "false", "Error accepting friend request:")
         /\ UNCHANGED <<tblRequests, notif>>
  /\ UNCHANGED <<tblFriends, friendSeq, aside, friends, friendRequests>>

\* ------------------------------------------------------ rejectFriendRequest

RejectStatusAccepted == "accepted"

\* .update({ status: 'rejected' })
RejectStatus == "rejected"

RejectUpdateReloadsOnError(u, requestId) ==
  /\ \E ok \in BOOLEAN :
       LET c0 == [Idle EXCEPT !.op = "reject", !.id = requestId] IN
       IF ~session[u] THEN
         /\ EnterReturn(u, c0, "false", "")
         /\ UNCHANGED <<tblRequests, notif>>
       ELSE IF ~ok THEN
         /\ call[u].pc = "done"
         /\ calls < budget
         /\ calls' = calls + 1
         /\ call' = [call EXCEPT ![u] = [c0 EXCEPT !.pc = "loadRequests"]]
         /\ ret' = NoReturn
         /\ Logs(u, "Error rejecting friend request:")
         /\ UNCHANGED <<tblRequests, notif>>
       ELSE
         /\ tblRequests' = SetStatus(requestId, RejectStatus)
         /\ IF requestId \in RequestIds THEN Emit("requests") ELSE UNCHANGED notif
         /\ Enter(u, [c0 EXCEPT !.pc = "loadRequests"])
  /\ UNCHANGED <<tblFriends, friendSeq, aside, friends, friendRequests>>

\* Entry and the response of the status update; on success loadFriendRequests
\* is started.
RejectUpdate(u, requestId) ==
  /\ \E ok \in BOOLEAN :
       LET c0 == [Idle EXCEPT !.op = "reject", !.id = requestId] IN
       IF ~session[u] THEN
         /\ EnterReturn(u, c0, "false", "")
         /\ UNCHANGED <<tblRequests, notif>>
       ELSE IF ~ok THEN
         /\ EnterReturn(u, c0, "false", "Error rejecting friend request:")
         /\ UNCHANGED <<tblRequests, notif>>
       ELSE
         /\ tblRequests' = SetStatus(requestId, RejectStatus)
         /\ IF requestId \in RequestIds THEN Emit("requests") ELSE UNCHANGED notif
         /\ Enter(u, [c0 EXCEPT !.pc = "loadRequests"])
  /\ UNCHANGED <<tblFriends, friendSeq, aside, friends, friendRequests>>

\* ------------------------------------------------------------- removeFriend

RemoveDeleteNoReload(u, friendId) ==
  /\ \E ok \in BOOLEAN :
       LET c0 == [Idle EXCEPT !.op = "remove", !.id = friendId] IN
       IF ~session[u] THEN
         /\ EnterReturn(u, c0, "false", "")
         /\ UNCHANGED tblFriends
       ELSE IF ~ok THEN
         /\ EnterReturn(u, c0, "false", "Error removing friend:")
         /\ UNCHANGED tblFriends
       ELSE
         /\ tblFriends' = tblFriends \ LinkFilter(u, friendId)
         /\ EnterReturn(u, c0, "true", "")
  /\ UNCHANGED <<friendSeq, tblRequests, aside, notif, friends, friendRequests>>

\* Entry and the response of the delete over the OR-of-AND filter; on success
\* loadFriends is started.
RemoveDelete(u, friendId) ==
  /\ \E ok \in BOOLEAN :
       LET c0 == [Idle EXCEPT !.op = "remove", !.id = friendId] IN
       IF ~session[u] THEN
         /\ EnterReturn(u, c0, "false", "")
         /\ UNCHANGED tblFriends
       ELSE IF ~ok THEN
         /\ EnterReturn(u, c0, "false", "Error removing friend:")
         /\ UNCHANGED tblFriends
       ELSE
         /\ tblFriends' = tblFriends \ LinkFilter(u, friendId)
         /\ Enter(u, [c0 EXCEPT !.pc = "loadFriends"])
  /\ UNCHANGED <<friendSeq, tblRequests, aside, notif, friends, friendRequests>>


\* -------------------------------------------------------- updateStudyStatus

\* subject || null
SubjectOrNull(subject) == IF subject = "" THEN "null" ELSE subject

\* .upsert(row), keyed by user_id: the user's row is replaced, or a first row
\* is inserted.
Upsert(u, status, subject, t) ==
  LET old == {r \in tblSessions : r.user_id = u} IN
  IF old = {}
  THEN tblSessions \cup { [id |-> Cardinality(tblSessions) + 1, user_id |-> u,
                           status |-> status, subject |-> subject, last_active |-> t] }
  ELSE (tblSessions \ old) \cup
       { [r EXCEPT !.status = status, !.subject = subject, !.last_active = t] : r \in old }

StampNothing(t) == 0

\* last_active: new Date().toISOString().  A stamp is the clock reading it was
\* formatted from: the fixed-width UTC text of a reading orders as the reading.
Stamp(t) == t

\* The whole operation: one round trip, nothing reloaded, nothing returned.
UpdateStudyStatus(u, status, subject) ==
  /\ \E ok \in BOOLEAN :
       LET c0 == [Idle EXCEPT !.op = "status", !.status = status, !.subject = subject] IN
       IF ~session[u] THEN
         /\ EnterReturn(u, c0, "void", "")
         /\ UNCHANGED <<tblSessions, notif>>
       ELSE IF ~ok THEN
         /\ EnterReturn(u, c0, "void", "Error updating study status:")
         /\ UNCHANGED <<tblSessions, notif>>
       ELSE
         /\ tblSessions' = Upsert(u, status, SubjectOrNull(subject), Stamp(now))
         /\ Emit("sessions")
         /\ EnterReturn(u, c0, "void", "")
  /\ UNCHANGED <<tblFriends, friendSeq, tblRequests, tblMessages, now, session, isLoading, bulk,
                 budget, ld, capturedFriends, mirrors>>

\* Time passes on the clock new Date() reads.
Tick ==
  /\ now < MaxTime
  /\ now' = now + 1
  /\ ret' = NoReturn
  /\ log' = NoLog
  /\ UNCHANGED <<remote, session, isLoading, bulk, call, calls, budget, notif, ld,
                 capturedFriends,
                 mirrors>>

\* --------------------------------------------------------- sendGroupMessage

SendGroupMessageShown(u, message, mentions) ==
  /\ \E ok \in BOOLEAN :
       LET c0 == [Idle EXCEPT !.op = "message"] IN
       IF ~session[u] THEN
         /\ EnterReturn(u, c0, "void", "")
         /\ UNCHANGED <<tblMessages, notif, groupMessages>>
       ELSE IF ~ok THEN
         /\ EnterReturn(u, c0, "void", "Error sending group message:")
         /\ UNCHANGED <<tblMessages, notif, groupMessages>>
       ELSE
         /\ tblMessages' = Append(tblMessages,
              [user_id |-> u, message |-> message, mentions |-> mentions])
         /\ groupMessages' = [groupMessages EXCEPT ![u] = Append(@,
              [id |-> Len(tblMessages) + 1, user_id |-> u,
               user_name |-> NameOf(Directory, u), message |-> message,
               mentions |-> mentions, created_at |-> Len(tblMessages) + 1])]
         /\ Emit("messages")
         /\ EnterReturn(u, c0, "void", "")
  /\ UNCHANGED <<tblFriends, friendSeq, tblRequests, tblSessions, now, session, isLoading, bulk,
                 budget, ld, capturedFriends, friends, friendRequests, studySessions>>

\* The whole operation: one insert, nothing reloaded, nothing returned.
SendGroupMessage(u, message, mentions) ==
  /\ \E ok \in BOOLEAN :
       LET c0 == [Idle EXCEPT !.op = "message"] IN
       IF ~session[u] THEN
         /\ EnterReturn(u, c0, "void", "")
         /\ UNCHANGED <<tblMessages, notif>>
       ELSE IF ~ok THEN
         /\ EnterReturn(u, c0, "void", "Error sending group message:")
         /\ UNCHANGED <<tblMessages, notif>>
       ELSE
         /\ tblMessages' = Append(tblMessages,
              [user_id |-> u, message |-> message, mentions |-> mentions])
         /\ Emit("messages")
         /\ EnterReturn(u, c0, "void", "")
  /\ UNCHANGED <<tblFriends, friendSeq, tblRequests, tblSessions, now, session, isLoading, bulk,
                 budget, ld, capturedFriends, mirrors>>

\* ------------------------------------------- loaders run by the subscriptions

\* loadStudySessions, first fetch: user_id in [user.id, ...friends.map(friend_id)],
\* with `friends` as the closure of the i-th effect run holds it.
SessionRows(u, i) ==
  {r \in tblSessions : r.user_id \in {u} \cup {f.friend_id : f \in capturedFriends[u][i]}}

\* loadStudySessions, the join.
JoinSessions(rows, usersData) ==
  { [id |-> r.id, user_id |-> r.user_id, user_name |-> NameOf(usersData, r.user_id),
     status |-> r.status, subject |-> r.subject, last_active |-> r.last_active]
    : r \in rows }

LoadSessionsFetched(u, i, ok, cur) ==
  IF ~ok THEN [done |-> TRUE, mirror |-> cur, data |-> {}, msg |-> "Error loading study sessions:"]
  ELSE IF SessionRows(u, i) = {} THEN [done |-> TRUE, mirror |-> {}, data |-> {}, msg |-> ""]
  ELSE [done |-> FALSE, mirror |-> cur, data |-> SessionRows(u, i), msg |-> ""]

LoadSessionsJoined(data, ok, cur) ==
  IF ~ok THEN [mirror |-> cur, msg |-> "Error loading session user details:"]
  ELSE [mirror |-> JoinSessions(data, UsersIn({r.user_id : r \in data})), msg |-> ""]

Min(a, b) == IF a < b THEN a ELSE b

\* loadGroupMessages, first fetch: order('created_at', descending).limit(50).
\* Rows are created in the order of their ids.
MessageRows ==
  LET n == Len(tblMessages) IN
  [i \in 1..Min(MessageLimit, n) |->
     [id |-> n - i + 1, user_id |-> tblMessages[n - i + 1].user_id,
      message |-> tblMessages[n - i + 1].message,
      mentions |-> tblMessages[n - i + 1].mentions,
      created_at |-> n - i + 1]]

\* loadGroupMessages, the join.
JoinMessages(rows, usersData) ==
  [i \in 1..Len(rows) |->
     [id |-> rows[i].id, user_id |-> rows[i].user_id,
      user_name |-> NameOf(usersData, rows[i].user_id),
      message |-> rows[i].message, mentions |-> rows[i].mentions,
      created_at |-> rows[i].created_at]]

NoReverse(seq) == seq

\* messagesWithDetails.reverse()
Reverse(seq) == [i \in 1..Len(seq) |-> seq[Len(seq) - i + 1]]

LoadMessagesFetched(ok, cur) ==
  IF ~ok THEN [done |-> TRUE, mirror |-> cur, data |-> <<>>, msg |-> "Error loading group messages:"]
  ELSE IF MessageRows = <<>> THEN [done |-> TRUE, mirror |-> <<>>, data |-> <<>>, msg |-> ""]
  ELSE [done |-> FALSE, mirror |-> cur, data |-> MessageRows, msg |-> ""]

LoadMessagesJoined(data, ok, cur) ==
  IF ~ok THEN [mirror |-> cur, msg |-> "Error loading message user details:"]
  ELSE [mirror |-> Reverse(JoinMessages(data,
                     UsersIn({data[i].user_id : i \in 1..Len(data)}))), msg |-> ""]

\* A change event of table k reaches the subscription the i-th effect run of
\* controller u installed: its callback starts the loader of k of that run.
Notify(u, k, i) ==
  /\ <<k, i>> \in notif[u]
  /\ ld[u][k].pc = "idle"
  /\ notif' = [notif EXCEPT ![u] = @ \ {<<k, i>>}]
  /\ ld' = [ld EXCEPT ![u][k].pc = "fetch", ![u][k].sub = i]
  /\ ret' = NoReturn
  /\ log' = NoLog
  /\ UNCHANGED <<remote, now, session, isLoading, bulk, call, calls, budget,
                 capturedFriends, mirrors>>

\* The first fetch of the loader of k answers: o is its outcome.
Fetched(u, k, o) ==
  /\ ld' = [ld EXCEPT ![u][k] = IF o.done THEN NotLoading(k)
                                 ELSE [@ EXCEPT !.pc = "users", !.data = o.data]]
  /\ Logs(u, o.msg)
  /\ ret' = NoReturn
  /\ UNCHANGED <<remote, now, session, isLoading, bulk, call, calls, budget, notif,
                 capturedFriends>>

\* The directory fetch of the loader of k answers: o is its outcome.
Joined(u, k, o) ==
  /\ ld' = [ld EXCEPT ![u][k] = NotLoading(k)]
  /\ Logs(u, o.msg)
  /\ ret' = NoReturn
  /\ UNCHANGED <<remote, now, session, isLoading, bulk, call, calls, budget, notif,
                 capturedFriends>>

LoadRequestsFetch(u) ==
  /\ ld[u]["requests"].pc = "fetch"
  /\ \E ok \in BOOLEAN :
       LET o == LoadRequestsFetched(u, ok, friendRequests[u]) IN
       /\ friendRequests' = [friendRequests EXCEPT ![u] = o.mirror]
       /\ Fetched(u, "requests", o)
  /\ UNCHANGED <<friends, studySessions, groupMessages>>

LoadRequestsUsers(u) ==
  /\ ld[u]["requests"].pc = "users"
  /\ \E ok \in BOOLEAN :
       LET o == LoadRequestsJoined(ld[u]["requests"].data, ok, friendRequests[u]) IN
       /\ friendRequests' = [friendRequests EXCEPT ![u] = o.mirror]
       /\ Joined(u, "requests", o)
  /\ UNCHANGED <<friends, studySessions, groupMessages>>

LoadSessionsFetch(u) ==
  /\ ld[u]["sessions"].pc = "fetch"
  /\ \E ok \in BOOLEAN :
       LET o == LoadSessionsFetched(u, ld[u]["sessions"].sub, ok, studySessions[u]) IN
       /\ studySessions' = [studySessions EXCEPT ![u] = o.mirror]
       /\ Fetched(u, "sessions", o)
  /\ UNCHANGED <<friends, friendRequests, groupMessages>>

LoadSessionsUsers(u) ==
  /\ ld[u]["sessions"].pc = "users"
  /\ \E ok \in BOOLEAN :
       LET o == LoadSessionsJoined(ld[u]["sessions"].data, ok, studySessions[u]) IN
       /\ studySessions' = [studySessions EXCEPT ![u] = o.mirror]
       /\ Joined(u, "sessions", o)
  /\ UNCHANGED <<friends, friendRequests, groupMessages>>

LoadMessagesFetch(u) ==
  /\ ld[u]["messages"].pc = "fetch"
  /\ \E ok \in BOOLEAN :
       LET o == LoadMessagesFetched(ok, groupMessages[u]) IN
       /\ groupMessages' = [groupMessages EXCEPT ![u] = o.mirror]
       /\ Fetched(u, "messages", o)
  /\ UNCHANGED <<friends, friendRequests, studySessions>>

LoadMessagesUsers(u) ==
  /\ ld[u]["messages"].pc = "users"
  /\ \E ok \in BOOLEAN :
       LET o == LoadMessagesJoined(ld[u]["messages"].data, ok, groupMessages[u]) IN
       /\ groupMessages' = [groupMessages EXCEPT ![u] = o.mirror]
       /\ Joined(u, "messages", o)
  /\ UNCHANGED <<friends, friendRequests, studySessions>>

\* --------------------------------------------------- session start and end

\* What loadFriendsData has started: the four loaders, each at its first fetch.
BulkStarted ==
  [loaders |-> [k \in BulkKinds |-> [pc |-> "fetch", data |-> NotLoading(k).data, sub |-> 0]],
   settled |-> FALSE]

\* The effect, run because a user has appeared: loadFriendsData sets isLoading
\* and starts the four loaders, and setupRealtimeSubscriptions installs three
\* subscriptions whose callbacks are the loaders of this run's closure.
SignIn(u) ==
  /\ ~session[u]
  /\ calls < budget
  /\ calls' = calls + 1
  /\ session' = [session EXCEPT ![u] = TRUE]
  /\ isLoading' = [isLoading EXCEPT ![u] = TRUE]
  /\ bulk' = [bulk EXCEPT ![u] = Append(@, BulkStarted)]
  /\ capturedFriends' = [capturedFriends EXCEPT ![u] = Append(@, friends[u])]
  /\ ret' = NoReturn
  /\ log' = NoLog
  /\ UNCHANGED <<remote, now, call, budget, notif, ld, mirrors>>

\* The effect, run because the user has gone: the four mirrors are cleared.
\* Nothing is unsubscribed and nothing in progress is stopped.
SignOut(u) ==
  /\ session[u]
  /\ calls < budget
  /\ calls' = calls + 1
  /\ session' = [session EXCEPT ![u] = FALSE]
  /\ friends' = [friends EXCEPT ![u] = {}]
  /\ friendRequests' = [friendRequests EXCEPT ![u] = {}]
  /\ studySessions' = [studySessions EXCEPT ![u] = {}]
  /\ groupMessages' = [groupMessages EXCEPT ![u] = <<>>]
  /\ ret' = NoReturn
  /\ log' = NoLog
  /\ UNCHANGED <<remote, now, isLoading, bulk, call, budget, notif, ld,
                 capturedFriends>>

\* ------------------------------------------------------------ loadFriendsData

\* The outcome of the first fetch of the loader of k in the i-th effect run.
FetchOutcome(u, i, k, ok) ==
  CASE k = "friends" -> LoadFriendsFetched(u, ok, friends[u])
    [] k = "requests" -> LoadRequestsFetched(u, ok, friendRequests[u])
    [] k = "sessions" -> LoadSessionsFetched(u, i, ok, studySessions[u])
    [] k = "messages" -> LoadMessagesFetched(ok, groupMessages[u])

\* The outcome of the directory fetch of the loader of k.
JoinOutcome(u, k, data, ok) ==
  CASE k = "friends" -> LoadFriendsJoined(data, ok, friends[u])
    [] k = "requests" -> LoadRequestsJoined(data, ok, friendRequests[u])
    [] k = "sessions" -> LoadSessionsJoined(data, ok, studySessions[u])
    [] k = "messages" -> LoadMessagesJoined(data, ok, groupMessages[u])

\* The setter of the loader of k is applied to v.
SetMirror(u, k, v) ==
  /\ friends' = IF k = "friends" THEN [friends EXCEPT ![u] = v] ELSE friends
  /\ friendRequests' = IF k = "requests" THEN [friendRequests EXCEPT ![u] = v]
                       ELSE friendRequests
  /\ studySessions' = IF k = "sessions" THEN [studySessions EXCEPT ![u] = v]
                      ELSE studySessions
  /\ groupMessages' = IF k = "messages" THEN [groupMessages EXCEPT ![u] = v]
                      ELSE groupMessages

\* All four loaders have returned.
AllReturned(loaders) == \A k \in BulkKinds : loaders[k].pc = "idle"

BulkStepNoFinally(u, i, k, slot, raised, msg) ==
  LET b == bulk[u][i]
      loaders == [b.loaders EXCEPT ![k] = slot]
      settles == ~b.settled /\ (raised \/ AllReturned(loaders))
  IN /\ bulk' = [bulk EXCEPT ![u][i] = [loaders |-> loaders,
                                       settled |-> b.settled \/ settles]]
     /\ isLoading' = IF settles /\ ~raised THEN [isLoading EXCEPT ![u] = FALSE]
                     ELSE isLoading
     /\ Logs(u, IF raised /\ settles THEN "Error loading friends data:" ELSE msg)
     /\ ret' = NoReturn
     /\ UNCHANGED <<remote, now, session, call, calls, budget, notif, ld,
                    capturedFriends>>

\* The loader of k of the i-th bulk load of controller u goes on as slot, or
\* raises.  Promise.all settles when the last loader returns or the first one
\* raises; `finally` then clears isLoading, and `catch` logs a raise.
BulkStep(u, i, k, slot, raised, msg) ==
  LET b == bulk[u][i]
      loaders == [b.loaders EXCEPT ![k] = slot]
      settles == ~b.settled /\ (raised \/ AllReturned(loaders))
  IN /\ bulk' = [bulk EXCEPT ![u][i] = [loaders |-> loaders,
                                       settled |-> b.settled \/ settles]]
     /\ isLoading' = IF settles THEN [isLoading EXCEPT ![u] = FALSE] ELSE isLoading
     /\ Logs(u, IF raised /\ settles THEN "Error loading friends data:" ELSE msg)
     /\ ret' = NoReturn
     /\ UNCHANGED <<remote, now, session, call, calls, budget, notif, ld,
                    capturedFriends>>

\* The first fetch of a loader of the bulk load answers.
BulkFetch(u, i, k) ==
  /\ i \in DOMAIN bulk[u]
  /\ bulk[u][i].loaders[k].pc = "fetch"
  /\ \E ok \in BOOLEAN :
       LET o == FetchOutcome(u, i, k, ok) IN
       /\ SetMirror(u, k, o.mirror)
       /\ BulkStep(u, i, k,
                   IF o.done THEN NotLoading(k)
                   ELSE [pc |-> "users", data |-> o.data, sub |-> 0],
                   FALSE, o.msg)

\* The directory fetch of a loader of the bulk load answers.
BulkUsers(u, i, k) ==
  /\ i \in DOMAIN bulk[u]
  /\ bulk[u][i].loaders[k].pc = "users"
  /\ \E ok \in BOOLEAN :
       LET o == JoinOutcome(u, k, bulk[u][i].loaders[k].data, ok) IN
       /\ SetMirror(u, k, o.mirror)
       /\ BulkStep(u, i, k, NotLoading(k), FALSE, o.msg)

\* A loader of the bulk load raises at the await it is waiting in.
BulkRaise(u, i, k) ==
  /\ i \in DOMAIN bulk[u]
  /\ bulk[u][i].loaders[k].pc # "idle"
  /\ BulkStep(u, i, k, NotLoading(k), TRUE, "")
  /\ UNCHANGED mirrors

\* ------------------------------------------------------------ specification

\* A bulk load that has finished.
BulkDone == [loaders |-> [k \in BulkKinds |-> NotLoading(k)], settled |-> TRUE]

\* Controllers mounted, those of the users in S with a session, their
\* subscriptions installed and their bulk load finished, no operation
\* running, nothing loaded into the mirrors; the run invokes at most n
\* operations.
InitControllers(S, n) ==
  /\ session = [u \in Users |-> u \in S]
  /\ budget = n
  /\ call = [u \in Users |-> Idle]
  /\ calls = 0
  /\ ret = NoReturn
  /\ log = NoLog
  /\ notif = [u \in Users |-> {}]
  /\ ld = [u \in Users |-> [k \in Kinds |-> NotLoading(k)]]
  /\ capturedFriends = [u \in Users |-> IF u \in S THEN << {} >> ELSE << >>]
  /\ isLoading = [u \in Users |-> FALSE]
  /\ bulk = [u \in Users |-> IF u \in S THEN << BulkDone >> ELSE << >>]
  /\ friends = [u \in Users |-> {}]
  /\ friendRequests = [u \in Users |-> {}]
  /\ studySessions = [u \in Users |-> {}]
  /\ groupMessages = [u \in Users |-> <<>>]

Init ==
  /\ tblFriends = {}
  /\ friendSeq = 0
  /\ tblRequests = <<>>
  /\ tblSessions = {}
  /\ tblMessages = <<>>
  /\ now = 0
  /\ InitControllers(Users, MaxCalls)

Next ==
  \/ \E u \in Users, email \in Emails : SendLookup(u, email)
  \/ \E u \in Users : SendCheck(u)
  \/ \E u \in Users : SendInsert(u)
  \/ \E u \in Users, requestId \in 1..MaxRequests : AcceptLookup(u, requestId)
  \/ \E u \in Users : AcceptInsert(u)
  \/ \E u \in Users : AcceptUpdate(u)
  \/ \E u \in Users, requestId \in 1..MaxRequests : RejectUpdate(u, requestId)
  \/ \E u \in Users, friendId \in Users : RemoveDelete(u, friendId)
  \/ \E u \in Users : CallLoadFriends(u)
  \/ \E u \in Users : CallLoadFriendsUsers(u)
  \/ \E u \in Users : CallLoadRequests(u)
  \/ \E u \in Users : CallLoadRequestsUsers(u)

Spec == Init /\ [][Next]_vars

\* The remote state two accepted friendships (1 with 2, 2 with 3) leave, met
\* by freshly mounted controllers.
InitFriendships ==
  /\ tblFriends = { [id |-> 1, user_id |-> 2, friend_id |-> 1],
                    [id |-> 2, user_id |-> 1, friend_id |-> 2],
                    [id |-> 3, user_id |-> 3, friend_id |-> 2],
                    [id |-> 4, user_id |-> 2, friend_id |-> 3] }
  /\ friendSeq = 4
  /\ tblRequests = << [sender_id |-> 1, receiver_id |-> 2, status |-> "accepted"],
                      [sender_id |-> 2, receiver_id |-> 3, status |-> "accepted"] >>
  /\ tblSessions = {}
  /\ tblMessages = <<>>
  /\ now = 0
  /\ InitControllers(Users, MaxCalls)

SpecFriendships == InitFriendships /\ [][Next]_vars

\* ---- presence: updateStudyStatus, the clock, the study_sessions subscription

NextPresence ==
  \/ \E u \in Users, status \in Statuses, subject \in Subjects :
       UpdateStudyStatus(u, status, subject)
  \/ Tick
  \/ \E u \in Users : \E i \in Installed(u) : Notify(u, "sessions", i)
  \/ \E u \in Users : LoadSessionsFetch(u)
  \/ \E u \in Users : LoadSessionsUsers(u)

\* User 1 is signed in; user 2 has signed out and left a presence row.
InitPresence ==
  /\ tblFriends = {}
  /\ friendSeq = 0
  /\ tblRequests = <<>>
  /\ tblSessions = { [id |-> 1, user_id |-> 2, status |-> "offline",
                      subject |-> "null", last_active |-> 0] }
  /\ tblMessages = <<>>
  /\ now = 0
  /\ InitControllers({1}, MaxFeedCalls)

SpecPresence == InitPresence /\ [][NextPresence]_vars

\* ---- group chat: sendGroupMessage, the group_messages subscription

Messages == {"hi"}

\* The feed n sendGroupMessage calls leave, the users taking turns.
Feed(n) == [i \in 1..n |-> [user_id |-> (i % 3) + 1, message |-> "hi", mentions |-> <<>>]]

\* An empty feed, or one message short of the loader's window; users 1 and 2
\* are signed in, user 3 is not.
InitMessages ==
  /\ tblFriends = {}
  /\ friendSeq = 0
  /\ tblRequests = <<>>
  /\ tblSessions = {}
  /\ tblMessages \in {Feed(0), Feed(MessageLimit - 1)}
  /\ now = 0
  /\ InitControllers({1, 2}, MaxFeedCalls)

NextMessages ==
  \/ \E u \in Users, message \in Messages : SendGroupMessage(u, message, <<>>)
  \/ \E u \in Users : \E i \in Installed(u) : Notify(u, "messages", i)
  \/ \E u \in Users : LoadMessagesFetch(u)
  \/ \E u \in Users : LoadMessagesUsers(u)

SpecMessages == InitMessages /\ [][NextMessages]_vars

\* ---- all operations and loaders of one signed-in controller

\* User 2 is signed in, users 1 and 3 are not.  The remote state: user 2 has
\* accepted the request of user 1 (the links are inserted, the status update
\* failed), has set a status and has sent a message.
InitLoad ==
  /\ tblFriends = { [id |-> 1, user_id |-> 2, friend_id |-> 1],
                    [id |-> 2, user_id |-> 1, friend_id |-> 2] }
  /\ friendSeq = 2
  /\ tblRequests = << [sender_id |-> 1, receiver_id |-> 2, status |-> "pending"] >>
  /\ tblSessions = { [id |-> 1, user_id |-> 2, status |-> "offline",
                      subject |-> "null", last_active |-> 0] }
  /\ tblMessages = Feed(1)
  /\ now = 0
  /\ InitControllers({2}, MaxLoadCalls)

\* The signed-in user of InitLoad.
Active == {2}

NextLoad ==
  \/ \E u \in Active, email \in Emails : SendLookup(u, email)
  \/ \E u \in Active : SendCheck(u)
  \/ \E u \in Active : SendInsert(u)
  \/ \E u \in Active, requestId \in 1..MaxRequests : AcceptLookup(u, requestId)
  \/ \E u \in Active : AcceptInsert(u)
  \/ \E u \in Active : AcceptUpdate(u)
  \/ \E u \in Active, requestId \in 1..MaxRequests : RejectUpdate(u, requestId)
  \/ \E u \in Active, friendId \in Users : RemoveDelete(u, friendId)
  \/ \E u \in Active : CallLoadFriends(u)
  \/ \E u \in Active : CallLoadFriendsUsers(u)
  \/ \E u \in Active : CallLoadRequests(u)
  \/ \E u \in Active : CallLoadRequestsUsers(u)
  \/ \E u \in Active : UpdateStudyStatus(u, "studying", "math")
  \/ \E u \in Active, message \in Messages : SendGroupMessage(u, message, <<>>)
  \/ \E u \in Active, k \in Kinds : \E i \in Installed(u) : Notify(u, k, i)
  \/ \E u \in Active : LoadRequestsFetch(u)
  \/ \E u \in Active : LoadRequestsUsers(u)
  \/ \E u \in Active : LoadSessionsFetch(u)
  \/ \E u \in Active : LoadSessionsUsers(u)
  \/ \E u \in Active : LoadMessagesFetch(u)
  \/ \E u \in Active : LoadMessagesUsers(u)

SpecLoad == InitLoad /\ [][NextLoad]_vars

\* ---- the session of one controller: start, bulk load, subscriptions, end

\* The friend of the user of InitSession who is signed in throughout.
Friend == {1}

\* The controller of user 2 is mounted without a user; user 1 is signed in.
\* The remote state: user 2 has accepted the request of user 1 and has a
\* pending request of user 3; users 1 and 2 have set a status; a message has
\* been sent.
InitSession ==
  /\ tblFriends = { [id |-> 1, user_id |-> 2, friend_id |-> 1],
                    [id |-> 2, user_id |-> 1, friend_id |-> 2] }
  /\ friendSeq = 2
  /\ tblRequests = << [sender_id |-> 1, receiver_id |-> 2, status |-> "accepted"],
                      [sender_id |-> 3, receiver_id |-> 2, status |-> "pending"] >>
  /\ tblSessions = { [id |-> 1, user_id |-> 1, status |-> "studying",
                      subject |-> "math", last_active |-> 0],
                     [id |-> 2, user_id |-> 2, status |-> "offline",
                      subject |-> "null", last_active |-> 0] }
  /\ tblMessages = Feed(1)
  /\ now = 0
  /\ InitControllers(Friend, MaxSessionCalls)

NextSession ==
  \/ \E u \in Active : SignIn(u)
  \/ \E u \in Active : SignOut(u)
  \/ \E u \in Active : \E i \in Installed(u), k \in BulkKinds : BulkFetch(u, i, k)
  \/ \E u \in Active : \E i \in Installed(u), k \in BulkKinds : BulkUsers(u, i, k)
  \/ \E u \in Active : \E i \in Installed(u) : Notify(u, "sessions", i)
  \/ \E u \in Active : LoadSessionsFetch(u)
  \/ \E u \in Active : LoadSessionsUsers(u)
  \/ \E u \in Friend : UpdateStudyStatus(u, "break", "")

SpecSession == InitSession /\ [][NextSession]_vars

\* ---- two signed-in users: the friend operations and the friend_requests
\* ---- subscription

Pair == {1, 2}

\* Users 1 and 2 are signed in, user 3 is not.  The remote state: user 3 has
\* sent user 2 a request; nothing else is stored.
InitPair ==
  /\ tblFriends = {}
  /\ friendSeq = 0
  /\ tblRequests = << [sender_id |-> 3, receiver_id |-> 2, status |-> "pending"] >>
  /\ tblSessions = {}
  /\ tblMessages = <<>>
  /\ now = 0
  /\ InitControllers(Pair, MaxCalls)

NextPair ==
  \/ \E u \in Pair, email \in Emails : SendLookup(u, email)
  \/ \E u \in Pair : SendCheck(u)
  \/ \E u \in Pair : SendInsert(u)
  \/ \E u \in Pair, requestId \in 1..MaxRequests : AcceptLookup(u, requestId)
  \/ \E u \in Pair : AcceptInsert(u)
  \/ \E u \in Pair : AcceptUpdate(u)
  \/ \E u \in Pair : CallLoadFriends(u)
  \/ \E u \in Pair : CallLoadFriendsUsers(u)
  \/ \E u \in Pair : CallLoadRequests(u)
  \/ \E u \in Pair : CallLoadRequestsUsers(u)
  \/ \E u \in Pair : \E i \in Installed(u) : Notify(u, "requests", i)
  \/ \E u \in Pair : LoadRequestsFetch(u)
  \/ \E u \in Pair : LoadRequestsUsers(u)

SpecPair == InitPair /\ [][NextPair]_vars

\* ---- the bulk load of one controller and the isLoading flag

\* No controller has a user.  The remote state: users 1 and 2 are friends,
\* nothing else is stored.
InitBulk ==
  /\ tblFriends = { [id |-> 1, user_id |-> 2, friend_id |-> 1],
                    [id |-> 2, user_id |-> 1, friend_id |-> 2] }
  /\ friendSeq = 2
  /\ tblRequests = << [sender_id |-> 1, receiver_id |-> 2, status |-> "accepted"] >>
  /\ tblSessions = {}
  /\ tblMessages = <<>>
  /\ now = 0
  /\ InitControllers({}, MaxBulkCalls)

NextBulk ==
  \/ \E u \in Active : SignIn(u)
  \/ \E u \in Active : SignOut(u)
  \/ \E u \in Active : \E i \in Installed(u), k \in BulkKinds : BulkFetch(u, i, k)
  \/ \E u \in Active : \E i \in Installed(u), k \in BulkKinds : BulkUsers(u, i, k)
  \/ \E u \in Active : \E i \in Installed(u), k \in BulkKinds : BulkRaise(u, i, k)
  \/ \E u \in Active : UpdateStudyStatus(u, "studying", "math")
  \/ \E u \in Active : \E i \in Installed(u) : Notify(u, "sessions", i)
  \/ \E u \in Active : LoadSessionsFetch(u)
  \/ \E u \in Active : LoadSessionsUsers(u)

SpecBulk == InitBulk /\ [][NextBulk]_vars

\* ================================================================== claims

\* Rows of the friends collection between a and b, by direction.
LinkRows(a, b) == {r \in tblFriends : r.user_id = a /\ r.friend_id = b}

\* Controller u takes this step as (part of) operation op.
StepOf(u, op) ==
  \/ call[u].op = op /\ call'[u] # call[u]
  \/ call[u].pc = "done" /\ call'[u].op = op /\ call'[u].pc # "done"
  \/ call[u].pc = "done" /\ calls' = calls + 1 /\ ret'.u = u /\ ret'.op = op

\* C1: starting with no request and no friend-link, when a sendFriendRequest
\* that succeeded and the receiver's acceptFriendRequest of that request are
\* the only two operations and the accept returns true, the friends collection
\* holds exactly two rows, (receiver, sender) and (sender, receiver), and the
\* request is accepted.
C1_SendAcceptTwoRows ==
  (calls = 2 /\ ret.op = "accept" /\ ret.res = "true"
     /\ ret.id \in RequestIds /\ ret.u = tblRequests[ret.id].receiver_id)
  => LET s == tblRequests[ret.id].sender_id
         r == tblRequests[ret.id].receiver_id
     IN /\ Cardinality(tblFriends) = 2
        /\ Cardinality(LinkRows(r, s)) = 1
        /\ Cardinality(LinkRows(s, r)) = 1
        /\ tblRequests[ret.id].status = "accepted"

C1_Witness ==
  /\ calls = 2 /\ ret.op = "accept" /\ ret.res = "true"
  /\ ret.id \in RequestIds /\ ret.u = tblRequests[ret.id].receiver_id
  /\ tblRequests[ret.id].sender_id # ret.u

C3_StatusTerminal ==
  [][\A i \in RequestIds :
       tblRequests[i].status \in {"accepted", "rejected"} =>
         /\ tblRequests'[i].status = tblRequests[i].status
         /\ (\E u \in Users : call[u].op = "accept" /\ call[u].id = i
                              /\ call[u].pc = "insert" /\ call'[u] # call[u])
              => tblFriends' = tblFriends]_vars

\* C4: when the "already friends" query of sendFriendRequest arrives while a
\* friend-link between the caller and the target exists in either direction,
\* the operation returns false (and so inserts no friend_requests row).
C4_AlreadyFriendsRefused ==
  [][\A u \in Users :
       (call[u].op = "send" /\ call[u].pc = "check" /\ call'[u] # call[u]
          /\ (LinkRows(u, call[u].target) # {} \/ LinkRows(call[u].target, u) # {}))
       => (ret'.u = u /\ ret'.op = "send" /\ ret'.res = "false"
           /\ tblRequests' = tblRequests)]_vars

\* C5: sendFriendRequest with the caller's own email, or with an email of no
\* directory entry, returns false in the step it is called in and leaves every
\* remote collection unchanged.
C5_SelfOrUnknownFails ==
  [][\A u \in Users, e \in Emails :
       (/\ StepOf(u, "send")
        /\ \/ ret'.u = u /\ ret'.email = e
           \/ call'[u].email = e
        /\ \/ e = EmailOf(Directory, u)
           \/ UsersByEmail(e) = {})
       => (ret'.u = u /\ ret'.op = "send" /\ ret'.email = e /\ ret'.res = "false"
           /\ call'[u].pc = "done" /\ remote' = remote)]_vars

\* A request to the caller's own email has just been refused.
C5_Witness ==
  /\ ret.op = "send" /\ ret.res = "false"
  /\ ret.u \in Users /\ ret.email = EmailOf(Directory, ret.u)

\* C7: no step of rejectFriendRequest changes the friends collection, and the
\* only remote change it makes is setting the request's status to rejected.
C7_RejectFrame ==
  [][\A u \in Users :
       StepOf(u, "reject") =>
         /\ tblFriends' = tblFriends /\ friendSeq' = friendSeq
         /\ tblSessions' = tblSessions /\ tblMessages' = tblMessages
         /\ \/ tblRequests' = tblRequests
            \/ \E i \in RequestIds :
                 tblRequests' = [tblRequests EXCEPT ![i].status = "rejected"]]_vars

\* The receiver's reject of a request has returned true: the request is
\* rejected and there is no friend link.
C7_Witness ==
  /\ ret.op = "reject" /\ ret.res = "true" /\ ret.id \in RequestIds
  /\ ret.u = tblRequests[ret.id].receiver_id
  /\ tblRequests[ret.id].status = "rejected"
  /\ tblFriends = {}

\* C6: a removeFriend(x) by u whose delete succeeds leaves no row (u, x) or
\* (x, u), removes no row of any other pair and adds none; when no row of the
\* pair is left (a second call) it leaves the friends collection as it is; and
\* a removeFriend whose delete succeeded returns true.
C6_RemoveBothIdempotent ==
  [][\A u \in Users :
       /\ (StepOf(u, "remove") /\ call'[u].pc = "loadFriends" /\ call[u].pc = "done") =>
            LET x == call'[u].id IN
            /\ \A r \in tblFriends' : {r.user_id, r.friend_id} # {u, x}
            /\ tblFriends' \subseteq tblFriends
            /\ \A r \in tblFriends : {r.user_id, r.friend_id} # {u, x} => r \in tblFriends'
            /\ (LinkRows(u, x) = {} /\ LinkRows(x, u) = {}) => tblFriends' = tblFriends
       /\ (call[u].op = "remove" /\ call'[u].pc = "done" /\ call[u].pc # "done") =>
            (ret'.u = u /\ ret'.op = "remove" /\ ret'.id = call[u].id /\ ret'.res = "true"
             /\ tblFriends' = tblFriends)]_vars

\* The second removeFriend(1) of user 2 has returned true: its own reload
\* failed, and the mirror holds what the reload of the first call loaded after
\* the rows of the pair were deleted; the rows of the other friendship remain.
C6_Witness ==
  /\ calls = 2
  /\ ret.op = "remove" /\ ret.res = "true" /\ ret.u = 2 /\ ret.id = 1
  /\ log = [u |-> 2, msg |-> "Error loading friends:"]
  /\ friends[2] = { [id |-> 4, user_id |-> 2, friend_id |-> 3,
                     friend_name |-> "Cy", friend_email |-> "cy@x"] }
  /\ LinkRows(1, 2) = {} /\ LinkRows(2, 1) = {}
  /\ Cardinality(tblFriends) = 2

\* What the loaders log when a fetch fails.
LoadErrors ==
  { "Error loading friends:", "Error loading friend user details:",
    "Error loading friend requests:", "Error loading sender user details:",
    "Error loading study sessions:", "Error loading session user details:",
    "Error loading group messages:", "Error loading message user details:" }

\* C8: a step in which a fetch of a loader of controller u fails leaves all
\* four mirrors of u as they were, and whenever a mirror changes it is set to
\* rows joined with the directory entry of their user (never a partial join).
C8_FailedLoadKeepsMirror ==
  [][\A u \in Users :
       /\ (log'.u = u /\ log'.msg \in LoadErrors) =>
            /\ friends'[u] = friends[u]
            /\ friendRequests'[u] = friendRequests[u]
            /\ studySessions'[u] = studySessions[u]
            /\ groupMessages'[u] = groupMessages[u]
       /\ friends'[u] # friends[u] =>
            \A f \in friends'[u] : /\ f.friend_name = NameOf(Directory, f.friend_id)
                                   /\ f.friend_email = EmailOf(Directory, f.friend_id)
       /\ friendRequests'[u] # friendRequests[u] =>
            \A r \in friendRequests'[u] : /\ r.sender_name = NameOf(Directory, r.sender_id)
                                          /\ r.sender_email = EmailOf(Directory, r.sender_id)
       /\ studySessions'[u] # studySessions[u] =>
            \A r \in studySessions'[u] : r.user_name = NameOf(Directory, r.user_id)
       /\ groupMessages'[u] # groupMessages[u] =>
            \A i \in 1..Len(groupMessages'[u]) :
               groupMessages'[u][i].user_name = NameOf(Directory, groupMessages'[u][i].user_id)]_vars

\* The directory fetch of a loadFriends has just failed, and the friends mirror
\* still holds the value of an earlier load, which differs from the join of
\* the rows the remote collection holds now.
C8_Witness ==
  /\ log.u \in Users /\ log.msg = "Error loading friend user details:"
  /\ friends[log.u] # {}
  /\ friends[log.u] # JoinFriends(FriendRows(log.u), Directory)

\* The rows of user u in the remote study_sessions collection.
SessionsOf(T, u) == {r \in T : r.user_id = u}

\* A step in which an updateStudyStatus of controller u succeeds.
StatusDone(u) ==
  /\ session[u] /\ calls' = calls + 1
  /\ ret'.u = u /\ ret'.op = "status" /\ log' = NoLog

\* C9 as stated: a successful updateStudyStatus of a user that has a row leaves
\* exactly one row of that user, with the status and subject of the call and a
\* last-active value strictly greater than before.
C9_StrictlyLater ==
  [][\A u \in Users :
       (StatusDone(u) /\ SessionsOf(tblSessions, u) # {}) =>
         /\ Cardinality(SessionsOf(tblSessions', u)) = 1
         /\ \A r \in SessionsOf(tblSessions', u), q \in SessionsOf(tblSessions, u) :
              /\ r.status = ret'.status
              /\ r.subject = SubjectOrNull(ret'.subject)
              /\ r.last_active > q.last_active]_vars

\* C9, amended: a successful updateStudyStatus leaves exactly one row of the
\* user, with the status and subject of the call; its last-active value is the
\* reading of the clock at the call, which is never less than the value of the
\* row before, and strictly greater when the clock has advanced since.
C9_OneRowLatest ==
  [][\A u \in Users :
       StatusDone(u) =>
         /\ Cardinality(SessionsOf(tblSessions', u)) = 1
         /\ \A r \in SessionsOf(tblSessions', u) :
              /\ r.status = ret'.status
              /\ r.subject = SubjectOrNull(ret'.subject)
              /\ r.last_active = now
              /\ \A q \in SessionsOf(tblSessions, u) :
                   /\ r.last_active >= q.last_active
                   /\ q.last_active < now => r.last_active > q.last_active
         /\ \A v \in Users \ {u} : SessionsOf(tblSessions', v) = SessionsOf(tblSessions, v)]_vars

\* User 1 has just made a successful updateStudyStatus after an earlier one:
\* the mirror still shows the row as the earlier call left it, with another
\* status and an older last-active value.
C9_Witness ==
  /\ ret.u = 1 /\ ret.op = "status" /\ log = NoLog
  /\ Cardinality(SessionsOf(tblSessions, 1)) = 1
  /\ \E r \in SessionsOf(tblSessions, 1), m \in studySessions[1] :
       /\ m.user_id = 1 /\ m.id = r.id
       /\ r.status = ret.status /\ m.status # r.status
       /\ r.subject = "math" /\ m.subject = "null"
       /\ m.last_active < r.last_active

\* The mirror a load that fetched when the newest message had id n sets: the
\* Min(50, n) messages up to n, oldest first, each with its author's name.
Window(n) ==
  LET k == IF n < 50 THEN n ELSE 50 IN
  [i \in 1..k |->
     [id |-> n - k + i, user_id |-> tblMessages[n - k + i].user_id,
      user_name |-> NameOf(Directory, tblMessages[n - k + i].user_id),
      message |-> tblMessages[n - k + i].message,
      mentions |-> tblMessages[n - k + i].mentions,
      created_at |-> n - k + i]]

\* C10: the first fetch of loadGroupMessages finds the newest of the N remote
\* messages first, and a load that succeeds sets the mirror to the min(50, N)
\* most recent of the N messages its fetch found, oldest to newest (the empty
\* mirror when N = 0).
C10_NewestFiftyAscending ==
  [][\A u \in Users :
       LET l == ld[u]["messages"] IN
       /\ (l.pc = "fetch" /\ ld'[u]["messages"].pc = "users") =>
            /\ Len(tblMessages) > 0
            /\ ld'[u]["messages"].data[1].id = Len(tblMessages)
       /\ (l.pc = "fetch" /\ ld'[u]["messages"].pc = "idle" /\ log' = NoLog) =>
            /\ Len(tblMessages) = 0
            /\ groupMessages'[u] = <<>>
       /\ (l.pc = "users" /\ ld'[u]["messages"].pc = "idle" /\ log' = NoLog) =>
            groupMessages'[u] = Window(l.data[1].id)]_vars

\* A load has set the mirror of a controller to the 50 newest of 51 messages:
\* ids 2 to 51, oldest first.
C10_Witness ==
  \E u \in Users :
    /\ Len(tblMessages) = 51
    /\ Len(groupMessages[u]) = 50
    /\ groupMessages[u][1].id = 2
    /\ groupMessages[u][50].id = 51
    /\ ld[u]["messages"].pc = "idle"

\* C11: in every state in which the session of a controller has ended (its
\* teardown has run), its four mirrors are empty, also when loaders started
\* during the session complete afterwards.
C11_ClearedAfterSession ==
  \A u \in Users :
    ~session[u] => /\ friends[u] = {}
                   /\ friendRequests[u] = {}
                   /\ studySessions[u] = {}
                   /\ groupMessages[u] = <<>>

\* The change-notification subscriptions of controller u that are active.
ActiveSubscriptions(u) == 3 * Len(capturedFriends[u])

\* C12: a controller whose session has ended has no active subscription, and
\* no controller ever has more than three.
C12_Unsubscribed ==
  \A u \in Users :
    /\ ~session[u] => ActiveSubscriptions(u) = 0
    /\ ActiveSubscriptions(u) <= 3

\* The friends mirror of u holds exactly one entry, which references f with
\* f's directory name and email.
OneEntry(u, f) ==
  /\ Cardinality(friends[u]) = 1
  /\ \A e \in friends[u] : /\ e.user_id = u /\ e.friend_id = f
                           /\ e.friend_name = NameOf(Directory, f)
                           /\ e.friend_email = EmailOf(Directory, f)

\* Nothing is running and no change event is pending.
Quiescent ==
  \A u \in Users : /\ call[u].pc = "done"
                   /\ notif[u] = {}
                   /\ \A k \in Kinds : ld[u][k].pc = "idle"

\* C13: when user 1 has sent a request to user 2's email and user 2 has
\* accepted it, these being the only operations, and user 2's mirror holds the
\* one entry for user 1 (the remote steps and user 2's loads succeeded), then
\* once every change event is delivered and every loader has finished, the
\* mirror of user 1 holds the one entry for user 2.
C13_BothSeeLink ==
  (/\ calls = 2
   /\ tblRequests = << [sender_id |-> 3, receiver_id |-> 2, status |-> "pending"],
                       [sender_id |-> 1, receiver_id |-> 2, status |-> "accepted"] >>
   /\ Cardinality(tblFriends) = 2
   /\ OneEntry(2, 1)
   /\ Quiescent)
  => OneEntry(1, 2)

\* C14: the lookup step of acceptFriendRequest writes nothing and, when it
\* returns, returns false; the insert step never changes a request and, when it
\* fails, returns false with the friends collection as it was, otherwise it has
\* inserted two rows; the update step never changes the friends collection (no
\* rollback) and, when it fails, returns false with the request and the mirrors
\* as they were and no reload started, otherwise the request is accepted; and
\* true is returned only out of the reloads that follow the update.
C14_AcceptAborts ==
  [][\A u \in Users :
       /\ (call[u].pc = "done" /\ StepOf(u, "accept")) =>
            /\ remote' = remote /\ mirrors' = mirrors
            /\ (ret'.u = u /\ ret'.op = "accept") => ret'.res = "false"
            /\ call'[u].pc \in {"done", "insert"}
       /\ (call[u].op = "accept" /\ call[u].pc = "insert" /\ call'[u] # call[u]) =>
            /\ tblRequests' = tblRequests /\ mirrors' = mirrors
            /\ IF call'[u].pc = "done"
               THEN ret'.u = u /\ ret'.res = "false" /\ tblFriends' = tblFriends
               ELSE /\ call'[u].pc = "update"
                    /\ tblFriends \subseteq tblFriends'
                    /\ Cardinality(tblFriends' \ tblFriends) = 2
       /\ (call[u].op = "accept" /\ call[u].pc = "update" /\ call'[u] # call[u]) =>
            /\ tblFriends' = tblFriends /\ mirrors' = mirrors
            /\ IF call'[u].pc = "done"
               THEN ret'.u = u /\ ret'.res = "false" /\ tblRequests' = tblRequests
               ELSE /\ call'[u].pc = "loadFriends"
                    /\ call[u].id \in RequestIds
                    /\ tblRequests'[call[u].id].status = "accepted"
       /\ (ret'.u = u /\ ret'.op = "accept" /\ ret'.res = "true") =>
            call[u].pc \in {"loadRequests", "loadRequestsUsers"}]_vars

\* The receiver's accept has returned false at its status update: the two
\* rows it inserted are there, the request is pending and the receiver's
\* mirrors were not reloaded.
C14_Witness ==
  /\ ret.op = "accept" /\ ret.res = "false" /\ ret.id \in RequestIds
  /\ ret.u = tblRequests[ret.id].receiver_id
  /\ log = [u |-> ret.u, msg |-> "Error accepting friend request:"]
  /\ Cardinality(LinkRows(ret.u, tblRequests[ret.id].sender_id)) = 1
  /\ Cardinality(LinkRows(tblRequests[ret.id].sender_id, ret.u)) = 1
  /\ tblRequests[ret.id].status = "pending"
  /\ friends[ret.u] = {} /\ friendRequests[ret.u] = {}

\* The mirrors of controller u.
MirrorsOf(u) == <<friends[u], friendRequests[u], studySessions[u], groupMessages[u]>>

\* An operation op of controller u has just returned success.
Succeeded(u, op) ==
  /\ ret.u = u /\ ret.op = op /\ session[u]
  /\ IF op \in {"status", "message"} THEN log = NoLog ELSE ret.res = "true"

\* C15 as stated: when a mutation operation has returned success, the
\* caller's mirror of the collection it wrote reflects the write.
C15_ReadYourWrites ==
  \A u \in Users :
    /\ Succeeded(u, "remove") => \A e \in friends[u] : e.friend_id # ret.id
    /\ Succeeded(u, "reject") => \A e \in friendRequests[u] : e.id # ret.id
    /\ Succeeded(u, "accept") => \A e \in friendRequests[u] : e.id # ret.id
    /\ Succeeded(u, "status") =>
         \E e \in studySessions[u] : e.user_id = u /\ e.status = ret.status
    /\ Succeeded(u, "message") =>
         \E i \in 1..Len(groupMessages[u]) : groupMessages[u][i].id = Len(tblMessages)

\* The step is the return of the reload that operation op of controller u
\* awaits last, and the reload logs no failed fetch.
Reloaded(u, op, pcs) ==
  /\ call[u].op = op /\ call[u].pc \in pcs
  /\ call'[u] # call[u] /\ call'[u].pc \notin pcs
  /\ log' = NoLog

\* C15, amended: acceptFriendRequest, rejectFriendRequest and removeFriend
\* return true only out of the reloads that follow their remote write, and a
\* reload whose fetches succeed leaves the mirror equal to the join of the
\* remote rows, which include the write; sendFriendRequest, updateStudyStatus
\* and sendGroupMessage leave the caller's mirrors as they are.
C15_ReloadBeforeReturn ==
  [][\A u \in Active :
       /\ \A op \in {"accept", "reject", "remove"} :
            (ret'.u = u /\ ret'.op = op /\ ret'.res = "true") =>
               call[u].pc \in {"loadFriends", "loadFriendsUsers",
                               "loadRequests", "loadRequestsUsers"}
       /\ (\E op \in {"accept", "remove"} :
             Reloaded(u, op, {"loadFriends", "loadFriendsUsers"})) =>
            /\ friends'[u] = JoinFriends(FriendRows(u), Directory)
            /\ call[u].op = "remove" => \A e \in friends'[u] : e.friend_id # call[u].id
            /\ (call[u].op = "accept" /\ call[u].other = u) =>
                 \E e \in friends'[u] : e.friend_id = call[u].target
       /\ (\E op \in {"accept", "reject"} :
             Reloaded(u, op, {"loadRequests", "loadRequestsUsers"})) =>
            /\ friendRequests'[u] = JoinRequests(PendingRows(u), Directory)
            /\ \A e \in friendRequests'[u] : e.id # call[u].id
       /\ (\E op \in {"send", "status", "message"} : StepOf(u, op)) =>
            MirrorsOf(u)' = MirrorsOf(u)]_vars

\* User 2's accept of the request of user 1 has returned true: the request is
\* accepted, the reloaded friends mirror has an entry for user 1 and the
\* reloaded request mirror is empty.
C15_Witness ==
  /\ ret.u = 2 /\ ret.op = "accept" /\ ret.res = "true" /\ ret.id = 1
  /\ tblRequests[1].status = "accepted"
  /\ \E e \in friends[2] : e.friend_id = 1 /\ e.friend_name = "Ann"
  /\ friends[2] = JoinFriends(FriendRows(2), Directory)
  /\ friendRequests[2] = {}

BulkInProgress(u) ==
  \E i \in DOMAIN bulk[u] : ~AllReturned(bulk[u][i].loaders)

\* C17: isLoading is true only while a bulk load has a loader that has not
\* returned (so it is false once the loaders of every bulk load have returned
\* or raised), and no step of a mutation operation or of a reload started by
\* a change notification changes it.
C17_LoadingOnlyInBulk ==
  [][\A u \in Users :
       /\ isLoading'[u] => BulkInProgress(u)'
       /\ ((\E op \in {"send", "accept", "reject", "remove", "status", "message"} :
              StepOf(u, op))
           \/ ld'[u] # ld[u]) => isLoading'[u] = isLoading[u]]_vars

\* The bulk load of user 2's session has finished with the friends mirror
\* loaded, and isLoading is false again.
C17_Witness ==
  /\ session[2] /\ Len(bulk[2]) = 1
  /\ AllReturned(bulk[2][1].loaders)
  /\ ~isLoading[2]
  /\ OneEntry(2, 1)

\* C18: in every reachable state the friends collection holds at most one row
\* for each ordered pair (owner, friend), whatever operations were performed.
C18_OneRowPerDirection ==
  \A a, b \in Users : Cardinality(LinkRows(a, b)) <= 1

\* The users whose presence rows a load of controller u is to show: u and the
\* friends of u in the friends collection, as far as they have a row.
Relevant(u) ==
  {r.user_id : r \in {s \in tblSessions :
                        s.user_id \in {u} \cup {f.friend_id : f \in FriendRows(u)}}}

\* Controller u takes this step as the successful completion of a
\* loadStudySessions, of a bulk load or of a reload started by a notification.
SessionsLoaded(u) ==
  /\ log' = NoLog
  /\ \/ ld[u]["sessions"].pc # "idle" /\ ld'[u]["sessions"].pc = "idle"
     \/ \E i \in DOMAIN bulk[u] :
          /\ bulk[u][i].loaders["sessions"].pc # "idle"
          /\ bulk'[u][i].loaders["sessions"].pc = "idle"

\* loadFriends has loaded the friends of u of the friends collection into the
\* friends mirror of u.
FriendsLoaded(u) ==
  {e.friend_id : e \in friends[u]} = {f.friend_id : f \in FriendRows(u)}

\* C19: whenever a loadStudySessions of controller u completes successfully
\* in a session of u whose friends mirror holds the friends of the friends
\* collection, the study-session mirror of u holds the presence rows of u and
\* of every friend of u, and of nobody else.
C19_SelfAndFriends ==
  [][\A u \in Users :
       (session[u] /\ FriendsLoaded(u) /\ SessionsLoaded(u))
       => {e.user_id : e \in studySessions'[u]} = Relevant(u)]_vars

\* C20: when a reload started by a study_sessions notification completes
\* successfully in a session of u and no study_sessions event is left
\* undelivered to u, the mirror of u holds, for every friend of u who has a
\* presence row, an entry with that friend's present status.
C20_FriendPresenceShown ==
  [][\A u \in Users :
       (/\ session[u]
        /\ ld[u]["sessions"].pc # "idle" /\ ld'[u]["sessions"].pc = "idle"
        /\ log' = NoLog
        /\ \A i \in Installed(u) : <<"sessions", i>> \notin notif'[u])
       => \A f \in FriendRows(u) : \A r \in tblSessions :
            r.user_id = f.friend_id
            => \E e \in studySessions'[u] :
                 e.user_id = r.user_id /\ e.status = r.status]_vars

\* Request ids are given in the order of insertion and a request that has
\* left `pending` never returns to it.  So when the friend-requests mirror of
\* u shows a request and not an earlier one e of the same receiver, its
\* snapshot was read after e had left `pending`, and a response that shows e
\* was read before it: the response is the older snapshot.
OlderSnapshotShown(u) ==
  \E e \in friendRequests'[u] :
    /\ e.id \notin {m.id : m \in friendRequests[u]}
    /\ \E m \in friendRequests[u] : m.id > e.id
    /\ tblRequests[e.id].status # "pending"

\* C21: when two reloads of the friend requests of a controller overlap, the
\* response that carries the older snapshot never overwrites the mirror set
\* from the newer one.
C21_NewerSnapshotKept ==
  [][\A u \in Users : ~OlderSnapshotShown(u)]_vars

\* What an operation logs when its remote write fails.
WriteError(op) ==
  CASE op = "send" -> "Error sending friend request:"
    [] op = "reject" -> "Error rejecting friend request:"
    [] op = "remove" -> "Error removing friend:"
    [] op = "status" -> "Error updating study status:"
    [] op = "message" -> "Error sending group message:"

\* Controller u takes this step as the failed response of the remote write of
\* op: the insert of sendFriendRequest, or the one write of the others.
WriteFails(u, op) ==
  /\ session[u]
  /\ StepOf(u, op)
  /\ op = "send" => call[u].pc = "insert"
  /\ log' = [u |-> u, msg |-> WriteError(op)]

\* C22: when the remote write of sendFriendRequest, rejectFriendRequest,
\* removeFriend, updateStudyStatus or sendGroupMessage fails, the step ends
\* the operation with the remote state, the loaders and the four mirrors as
\* they were; the first three return false, the last two return nothing.
C22_FailedWriteAborts ==
  [][\A u \in Users : \A op \in {"send", "reject", "remove", "status", "message"} :
       WriteFails(u, op)
       => /\ UNCHANGED <<remote, mirrors, ld, bulk, notif>>
          /\ call'[u].pc = "done"
          /\ ret'.u = u /\ ret'.op = op
          /\ ret'.res = IF op \in {"status", "message"} THEN "void" ELSE "false"]_vars

\* The status update of a rejectFriendRequest of user 2 has failed while the
\* request is pending: the call has returned false.
C22_Witness ==
  /\ ret.u = 2 /\ ret.op = "reject" /\ ret.res = "false" /\ ret.id = 1
  /\ log = [u |-> 2, msg |-> "Error rejecting friend request:"]
  /\ tblRequests[1].status = "pending"
  /\ call[2].pc = "done"

\* C23: while a controller has no user, no step changes its mirrors, none of
\* its loaders starts, and each of the six operations changes no remote state
\* and ends at once, the four boolean ones returning false and the two others
\* nothing.
C23_AbsentUserInert ==
  [][\A u \in Users :
       (~session[u] /\ ~session'[u])
       => /\ MirrorsOf(u)' = MirrorsOf(u)
          /\ \A k \in Kinds : ld[u][k].pc = "idle" => ld'[u][k].pc = "idle"
          /\ \A op \in {"send", "accept", "reject", "remove", "status", "message"} :
               StepOf(u, op)
               => /\ UNCHANGED remote
                  /\ call'[u].pc = "done"
                  /\ ret'.res = IF op \in {"status", "message"} THEN "void"
                                ELSE "false"]_vars

====
